---- MODULE Spec2Model ----
(***************************************************************************)
(* Model of the storeroom node-IP / cluster-CIDR conflict probe            *)
(* (src/main/main.go).  One process: main() parses its two arguments and   *)
(* then loops forever over  fetchNodeIPs(); log; time.Sleep(duration).     *)
(*                                                                         *)
(* Data representation                                                     *)
(*   net.IP      a sequence of bytes of length 0 (nil), 4 or 16            *)
(*   net.Addr    [type |-> "IPNet" | "IPAddr" | "Unix", IP |-> net.IP]     *)
(*   string      text of an address: [fmt |-> "dotted", f |-> 4 fields],   *)
(*               [fmt |-> "colon", f |-> 16 bytes], [fmt |-> "<nil>"] or   *)
(*               [fmt |-> "?hex"]; text of a CIDR: [addr, slash, bits]     *)
(*   sets.String a set of address texts                                    *)
(*   log         the klog records written since the current pass began     *)
(*               (or since process start, before the loop)                 *)
(***************************************************************************)
EXTENDS Integers, Sequences, FiniteSets, TLC

VARIABLES pc, osArgs, CIDR, duration, log,
          ifAddrs, devAddrs, nodeAddress, bindedAddress,
          ips, err, invalidIP, tests, sleeps, prev

vars == <<pc, osArgs, CIDR, duration, log, ifAddrs, devAddrs, nodeAddress,
          bindedAddress, ips, err, invalidIP, tests, sleeps, prev>>

(***************************************************************************)
(* Bounds of the model.                                                    *)
(***************************************************************************)
\* longest list net.InterfaceAddrs() returns
MaxAddrs == 2
\* longest list (*net.Interface).Addrs() returns for kube-ipvs0
MaxDevAddrs == 1

(***************************************************************************)
(* net.IP values and their predicates (package net, as used by main.go).   *)
(***************************************************************************)
nil == <<>>

v4InV6Prefix == <<0, 0, 0, 0, 0, 0, 0, 0, 0, 0, 255, 255>>

IPv4(a, b, c, d) == v4InV6Prefix \o <<a, b, c, d>>

IP4(a, b, c, d) == <<a, b, c, d>>

IPv6loopback == <<0, 0, 0, 0, 0, 0, 0, 0, 0, 0, 0, 0, 0, 0, 0, 1>>

\* ip.To4(): the 4-byte form of an IPv4 address in either form, else nil
To4(ip) ==
  IF Len(ip) = 4 THEN ip
  ELSE IF Len(ip) = 16 /\ SubSeq(ip, 1, 12) = v4InV6Prefix THEN SubSeq(ip, 13, 16)
  ELSE nil

\* ip.IsLoopback()
IsLoopback(ip) ==
  IF To4(ip) # nil THEN To4(ip)[1] = 127 ELSE ip = IPv6loopback

\* ip.String(): the canonical text; both forms of an IPv4 address give the
\* same dotted text
String(ip) ==
  IF Len(ip) = 0 THEN [fmt |-> "<nil>", f |-> <<>>]
  ELSE IF To4(ip) # nil THEN [fmt |-> "dotted", f |-> To4(ip)]
  ELSE IF Len(ip) = 16 THEN [fmt |-> "colon", f |-> ip]
  ELSE [fmt |-> "?hex", f |-> ip]

\* ParseIP(s): the address a text denotes, nil when it denotes none; an IPv4
\* text parses to the 16-byte form
ParseIP(s) ==
  IF s.fmt = "dotted" /\ Len(s.f) = 4 /\ \A i \in 1..4 : s.f[i] \in 0..255
    THEN IPv4(s.f[1], s.f[2], s.f[3], s.f[4])
  ELSE IF s.fmt = "colon" /\ Len(s.f) = 16 THEN s.f
  ELSE nil

Pow2(n) == IF n = 0 THEN 1 ELSE IF n = 1 THEN 2 ELSE IF n = 2 THEN 4
           ELSE IF n = 3 THEN 8 ELSE IF n = 4 THEN 16 ELSE IF n = 5 THEN 32
           ELSE IF n = 6 THEN 64 ELSE IF n = 7 THEN 128 ELSE 256

\* byte i (1-based) of net.CIDRMask(ones, bits)
MaskByte(ones, i) ==
  IF ones >= 8 * i THEN 255
  ELSE IF ones <= 8 * (i - 1) THEN 0
  ELSE 256 - Pow2(8 * i - ones)

CIDRMask(ones, bits) == [i \in 1..(bits \div 8) |-> MaskByte(ones, i)]

\* x & m for a byte m of a prefix mask
And(x, m) == x - (x % (256 - m))

\* ip.Mask(mask) for a mask of the address's own family
Mask(ip, mask) ==
  LET p == IF Len(mask) = 4 /\ Len(ip) = 16 /\ SubSeq(ip, 1, 12) = v4InV6Prefix
             THEN SubSeq(ip, 13, 16) ELSE ip
  IN IF Len(p) # Len(mask) THEN nil
     ELSE [i \in 1..Len(p) |-> And(p[i], mask[i])]

\* net.ParseCIDR(s): [err, ipnet]; ipnet is "nil" on error
ParseCIDR(s) ==
  LET ip   == ParseIP(s.addr)
      bits == IF s.addr.fmt = "dotted" THEN 32 ELSE 128
      bad  == [err |-> TRUE, ipnet |-> "nil"]
  IN IF ~s.slash THEN bad
     ELSE IF ip = nil THEN bad
     ELSE IF s.bits < 0 \/ s.bits > bits THEN bad
     ELSE [err |-> FALSE,
           ipnet |-> [IP   |-> Mask(ip, CIDRMask(s.bits, bits)),
                      Mask |-> CIDRMask(s.bits, bits)]]

\* containment that compares the whole address and ignores the mask
ContainsUnmasked(ipnet, ip) ==
  LET x == IF To4(ip) # nil THEN To4(ip) ELSE ip
  IN x = ipnet.IP

\* ipnet.Contains(ip)
Contains(ipnet, ip) ==
  LET x == IF To4(ip) # nil THEN To4(ip) ELSE ip
  IN /\ Len(x) = Len(ipnet.IP)
     /\ \A i \in 1..Len(x) : And(ipnet.IP[i], ipnet.Mask[i]) = And(x[i], ipnet.Mask[i])

(***************************************************************************)
(* The address filter and the set builder.                                 *)
(***************************************************************************)
IsIPv6(netIP) == netIP # nil /\ To4(netIP) = nil

\* the filter without its loopback test
isValidForSetNoLoopback(ip) == ~IsIPv6(ip)

isValidForSet(ip) ==
  IF IsIPv6(ip) THEN FALSE
  ELSE IF IsLoopback(ip) THEN FALSE
  ELSE TRUE

RECURSIVE AddressSetFrom(_, _, _)
AddressSetFrom(addrs, i, set) ==
  IF i > Len(addrs) THEN set
  ELSE LET a == addrs[i]
       IN IF a.type \notin {"IPAddr", "IPNet"}
            THEN AddressSetFrom(addrs, i + 1, set)
          ELSE IF isValidForSet(a.IP)
            THEN AddressSetFrom(addrs, i + 1, set \cup {String(a.IP)})
          ELSE AddressSetFrom(addrs, i + 1, set)

AddressSet(addrs) == AddressSetFrom(addrs, 1, {})

(***************************************************************************)
(* time.ParseDuration on a text given as a sequence of characters.  The    *)
(* value is in microseconds; the modelled arguments are written with the   *)
(* characters 0-9 . - + s m u x, so the units ns, h and the micro sign     *)
(* cannot occur in them.                                                   *)
(***************************************************************************)
Digits == {"0", "1", "2", "3", "4", "5", "6", "7", "8", "9"}

DigitVal(c) ==
  CASE c = "0" -> 0 [] c = "1" -> 1 [] c = "2" -> 2 [] c = "3" -> 3 [] c = "4" -> 4
    [] c = "5" -> 5 [] c = "6" -> 6 [] c = "7" -> 7 [] c = "8" -> 8 [] c = "9" -> 9

RECURSIVE leadingInt(_, _, _)
leadingInt(s, i, x) ==
  IF i <= Len(s) /\ s[i] \in Digits
    THEN leadingInt(s, i + 1, x * 10 + DigitVal(s[i]))
  ELSE [x |-> x, i |-> i]

RECURSIVE leadingFraction(_, _, _, _)
leadingFraction(s, i, x, scale) ==
  IF i <= Len(s) /\ s[i] \in Digits
    THEN leadingFraction(s, i + 1, x * 10 + DigitVal(s[i]), scale * 10)
  ELSE [x |-> x, scale |-> scale, i |-> i]

RECURSIVE unitEnd(_, _)
unitEnd(s, i) ==
  IF i <= Len(s) /\ s[i] # "." /\ s[i] \notin Digits THEN unitEnd(s, i + 1) ELSE i

unitMap ==
  [u \in {<<"u", "s">>, <<"m", "s">>, <<"s">>, <<"m">>} |->
     IF u = <<"u", "s">> THEN 1
     ELSE IF u = <<"m", "s">> THEN 1000
     ELSE IF u = <<"s">> THEN 1000000
     ELSE 60000000]

RECURSIVE durationGroups(_, _, _)
durationGroups(s, i, d) ==
  IF i > Len(s) THEN [err |-> FALSE, d |-> d]
  ELSE IF ~(s[i] = "." \/ s[i] \in Digits) THEN [err |-> TRUE, d |-> 0]
  ELSE LET li     == leadingInt(s, i, 0)
           pre    == li.i # i
           hasDot == li.i <= Len(s) /\ s[li.i] = "."
           lf     == IF hasDot THEN leadingFraction(s, li.i + 1, 0, 1)
                     ELSE [x |-> 0, scale |-> 1, i |-> li.i]
           post   == hasDot /\ lf.i # li.i + 1
           ue     == unitEnd(s, lf.i)
           u      == SubSeq(s, lf.i, ue - 1)
       IN IF ~pre /\ ~post THEN [err |-> TRUE, d |-> 0]
          ELSE IF ue = lf.i THEN [err |-> TRUE, d |-> 0]
          ELSE IF u \notin DOMAIN unitMap THEN [err |-> TRUE, d |-> 0]
          ELSE durationGroups(s, ue,
                 d + li.x * unitMap[u] + ((lf.x * unitMap[u]) \div lf.scale))

ParseDuration(s) ==
  LET signed == s # <<>> /\ s[1] \in {"-", "+"}
      neg    == s # <<>> /\ s[1] = "-"
      t      == IF signed THEN Tail(s) ELSE s
      r      == durationGroups(t, 1, 0)
  IN IF t = <<"0">> THEN [err |-> FALSE, d |-> 0]
     ELSE IF t = <<>> THEN [err |-> TRUE, d |-> 0]
     ELSE IF r.err THEN r
     ELSE [err |-> FALSE, d |-> IF neg THEN 0 - r.d ELSE r.d]

(***************************************************************************)
(* Inputs: the addresses a host can report, the command lines.             *)
(***************************************************************************)
IPNet(ip) == [type |-> "IPNet", IP |-> ip]

IPAddr(ip) == [type |-> "IPAddr", IP |-> ip]

UnixAddr == [type |-> "Unix", IP |-> nil]

\* 10.0.0.5, 10.96.0.5 (4-byte and IPv4-mapped), 10.96.0.10, 127.0.0.1,
\* 169.254.0.1 (IPv4 link-local), 1000:: and a non-IP address
HostAddrs ==
  { IPNet(IP4(10, 0, 0, 5)), IPNet(IP4(10, 96, 0, 5)), IPNet(IPv4(10, 96, 0, 5)),
    IPAddr(IP4(10, 96, 0, 10)), IPNet(IP4(127, 0, 0, 1)), IPNet(IP4(169, 254, 0, 1)),
    IPNet(<<16, 0, 0, 0, 0, 0, 0, 0, 0, 0, 0, 0, 0, 0, 0, 0>>), UnixAddr }

\* the addresses of the two-pass specification
HistAddrs ==
  { IPNet(IP4(10, 0, 0, 5)), IPNet(IP4(10, 96, 0, 5)), IPAddr(IP4(10, 96, 0, 10)) }

\* the address of the liveness specification
LiveAddrs == { IPNet(IP4(10, 96, 0, 5)) }

SeqsUpTo(S, n) == UNION {[1..k -> S] : k \in 0..n}

\* results of net.InterfaceAddrs()
AllResults(S) ==
  {[called |-> TRUE, err |-> TRUE, addrs |-> <<>>]}
    \cup {[called |-> TRUE, err |-> FALSE, addrs |-> l] : l \in SeqsUpTo(S, MaxAddrs)}

\* results of net.InterfaceByName(dev) followed by ifi.Addrs()
DevResults(S) ==
  {[called |-> TRUE, found |-> FALSE, err |-> FALSE, addrs |-> <<>>],
   [called |-> TRUE, found |-> TRUE, err |-> TRUE, addrs |-> <<>>]}
    \cup {[called |-> TRUE, found |-> TRUE, err |-> FALSE, addrs |-> l] :
            l \in SeqsUpTo(S, MaxDevAddrs)}

NotCalled == [called |-> FALSE, err |-> FALSE, addrs |-> <<>>]

DevNotCalled == [called |-> FALSE, found |-> FALSE, err |-> FALSE, addrs |-> <<>>]

Dotted(a, b, c, d) == [fmt |-> "dotted", f |-> <<a, b, c, d>>]

CidrText(addr, bits) == [addr |-> addr, slash |-> TRUE, bits |-> bits]

\* the empty string
EmptyText == [addr |-> [fmt |-> "?hex", f |-> <<>>], slash |-> FALSE, bits |-> 0]

\* "10.96.0.0/12"
ServiceCIDR == CidrText(Dotted(10, 96, 0, 0), 12)

\* "10.96.0.0/33" and "10.96.0.0": texts net.ParseCIDR rejects
BadCIDRs == {CidrText(Dotted(10, 96, 0, 0), 33),
             [addr |-> Dotted(10, 96, 0, 0), slash |-> FALSE, bits |-> 0]}

CidrArgs == {ServiceCIDR} \cup BadCIDRs

\* "5", "1s5", "", "x", "." and "5m"
IntervalArgs == {<<"5">>, <<"1", "s", "5">>, <<>>, <<"x">>, <<".">>, <<"5", "m">>}

ArgVectors ==
  {<<"storeroom">>} \cup {<<"storeroom", i>> : i \in IntervalArgs}
    \cup {<<"storeroom", i, c>> : i \in IntervalArgs, c \in CidrArgs}

HistArgVectors ==
  {<<"storeroom">>}
    \cup {<<"storeroom", <<"5">>, c>> :
            c \in {ServiceCIDR, CidrText(Dotted(10, 96, 0, 0), 33)}}

(***************************************************************************)
(* klog records.                                                           *)
(***************************************************************************)
Error(msg, args) == [sev |-> "ERROR", msg |-> msg, args |-> args]

(***************************************************************************)
(* fetchNodeIPs and the functions it calls.                                *)
(***************************************************************************)
\* getAllLocalAddresses() on the result r of net.InterfaceAddrs()
getAllLocalAddresses(r) ==
  IF r.err THEN [set |-> {}, err |-> "Could not get addresses"]
  ELSE [set |-> AddressSet(r.addrs), err |-> "nil"]

\* the lookup that takes an absent or unreadable device for one without
\* addresses
GetLocalAddressesLenient(dev, r) ==
  IF ~r.found \/ r.err THEN [set |-> {}, err |-> "nil"]
  ELSE [set |-> AddressSet(r.addrs), err |-> "nil"]

\* GetLocalAddresses(dev) on the result r of the lookup and read of dev
GetLocalAddresses(dev, r) ==
  IF ~r.found THEN [set |-> {}, err |-> "Could not get interface " \o dev]
  ELSE IF r.err THEN [set |-> {}, err |-> "Can't get addresses from " \o dev]
  ELSE [set |-> AddressSet(r.addrs), err |-> "nil"]

bindedIPs(r) == GetLocalAddresses("kube-ipvs0", r)

\* the difference that forgets to remove the device's addresses
DifferenceKeepsAll(s1, s2) == s1

\* nodeAddress.Difference(bindedAddress)
Difference(s1, s2) == s1 \ s2

\* the orders ipset.UnsortedList() can return
UnsortedLists(set) ==
  {l \in [1..Cardinality(set) -> set] : \A i, j \in DOMAIN l : l[i] = l[j] => i = j}

\* the entry that keeps the flag of the previous call, as a flag declared
\* outside the function would
LoopEntryLatched(was) == [ips |-> <<>>, invalidIP |-> was, log |-> <<>>, tests |-> 0]

\* the locals as the loop of fetchNodeIPs is entered (line 51 clears the
\* flag); was is the value the flag had when the previous call returned
LoopEntry(was) == [ips |-> <<>>, invalidIP |-> FALSE, log |-> <<>>, tests |-> 0]

\* the iteration that assigns the flag on every candidate
LoopBodyOverwrites(st, ipStr, cidr) ==
  LET a      == ParseIP(ipStr)
      parsed == ParseCIDR(cidr)
      hit    == IF parsed.err THEN FALSE
                ELSE Contains(parsed.ipnet, a) /\ ~st.invalidIP
  IN [ips       |-> Append(st.ips, a),
      invalidIP |-> hit,
      log       |-> IF hit
                      THEN Append(st.log, Error("Node IP contains cluster ip:", <<a>>))
                    ELSE st.log,
      tests     |-> IF parsed.err THEN st.tests ELSE st.tests + 1]

\* the iteration that reports every candidate of the block
LoopBodyLogsEveryHit(st, ipStr, cidr) ==
  LET a      == ParseIP(ipStr)
      parsed == ParseCIDR(cidr)
      log1   == IF parsed.err
                  THEN Append(st.log, Error("Could not parse cidr, error", <<cidr>>))
                ELSE st.log
      hit    == IF parsed.err THEN FALSE ELSE Contains(parsed.ipnet, a)
  IN [ips       |-> Append(st.ips, a),
      invalidIP |-> IF hit THEN TRUE ELSE st.invalidIP,
      log       |-> IF hit
                      THEN Append(log1, Error("Node IP contains cluster ip:", <<a>>))
                    ELSE log1,
      tests     |-> IF parsed.err THEN st.tests ELSE st.tests + 1]

\* one iteration of the loop of fetchNodeIPs
LoopBody(st, ipStr, cidr) ==
  LET a      == ParseIP(ipStr)
      parsed == ParseCIDR(cidr)
      log1   == IF parsed.err
                  THEN Append(st.log, Error("Could not parse cidr, error", <<cidr>>))
                ELSE st.log
      hit    == IF parsed.err THEN FALSE
                ELSE Contains(parsed.ipnet, a) /\ ~st.invalidIP
  IN [ips       |-> Append(st.ips, a),
      invalidIP |-> IF hit THEN TRUE ELSE st.invalidIP,
      log       |-> IF hit
                      THEN Append(log1, Error("Node IP contains cluster ip:", <<a>>))
                    ELSE log1,
      tests     |-> IF parsed.err THEN st.tests ELSE st.tests + 1]

\* the loop that stops at the first conflict
RECURSIVE LoopShortCircuit(_, _, _, _)
LoopShortCircuit(st, list, i, cidr) ==
  IF i > Len(list) \/ st.invalidIP THEN st
  ELSE LoopShortCircuit(LoopBody(st, list[i], cidr), list, i + 1, cidr)

RECURSIVE Loop(_, _, _, _)
Loop(st, list, i, cidr) ==
  IF i > Len(list) THEN st
  ELSE Loop(LoopBody(st, list[i], cidr), list, i + 1, cidr)

\* what fetchNodeIPs() returns and logs when nothing failed and the
\* candidates are met in the order list
Completed(na, ba, list, cidr, was) ==
  LET st == Loop(LoopEntry(was), list, 1, cidr)
  IN [ips |-> st.ips, err |-> "nil", nodeAddress |-> na, bindedAddress |-> ba,
      invalidIP |-> st.invalidIP, tests |-> st.tests,
      log |-> IF st.invalidIP
                THEN Append(st.log,
                       Error("NodeAddresses: %+v, BindAddresses:%+v, Diff: %+v",
                             <<na, ba, st.ips>>))
              ELSE st.log]

\* fetchNodeIPs() on the results all, dev of the two enumerations: the set of
\* its possible outcomes, one for each order of ipset.UnsortedList()
fetchNodeIPs(all, dev, cidr, was) ==
  LET na   == getAllLocalAddresses(all)
      ba   == bindedIPs(dev)
      none == [ips |-> nil, err |-> "nil", nodeAddress |-> {}, bindedAddress |-> {},
               invalidIP |-> FALSE, tests |-> 0, log |-> <<>>]
  IN IF na.err # "nil"
       THEN {[none EXCEPT !.err =
                "error listing LOCAL type addresses from host, error: " \o na.err]}
     ELSE IF ba.err # "nil"
       THEN {[none EXCEPT !.err = ba.err, !.nodeAddress = na.set]}
     ELSE {Completed(na.set, ba.set, list, cidr, was) :
             list \in UnsortedLists(Difference(na.set, ba.set))}

(***************************************************************************)
(* main.                                                                   *)
(***************************************************************************)
Range(l) == {l[i] : i \in DOMAIN l}

\* what the pass of the current state read and produced, the lists as sets
Summary ==
  [called |-> ifAddrs.called,
   all |-> [err |-> ifAddrs.err, addrs |-> Range(ifAddrs.addrs)],
   dev |-> [called |-> devAddrs.called, found |-> devAddrs.found,
            err |-> devAddrs.err, addrs |-> Range(devAddrs.addrs)],
   ipset |-> Range(ips), invalidIP |-> invalidIP, err |-> err]

InitWith(argvs) ==
  /\ pc = "start"
  /\ osArgs \in argvs
  /\ CIDR = EmptyText
  /\ duration = 0
  /\ log = <<>>
  /\ ifAddrs = NotCalled
  /\ devAddrs = DevNotCalled
  /\ nodeAddress = {}
  /\ bindedAddress = {}
  /\ ips = nil
  /\ err = "nil"
  /\ invalidIP = FALSE
  /\ tests = 0
  /\ sleeps = <<>>
  /\ prev = [pass |-> Summary, lastInvalidIP |-> FALSE]

Init == InitWith(ArgVectors)

HistInit == InitWith(HistArgVectors)

\* the startup that does not look at the error of time.ParseDuration
ArgumentsUnchecked(args) ==
  IF Len(args) < 3
    THEN [loop |-> FALSE, CIDR |-> EmptyText, duration |-> 0,
          log |-> <<Error("Pass time in milli secs to sleep and CIDR", <<>>)>>]
  ELSE [loop |-> TRUE, CIDR |-> args[3],
        duration |-> ParseDuration(args[2] \o <<"m", "s">>).d, log |-> <<>>]

\* main, lines 18-28, on the argument vector args: whether the loop is
\* entered, the configuration and what is logged
Arguments(args) ==
  IF Len(args) < 3
    THEN [loop |-> FALSE, CIDR |-> EmptyText, duration |-> 0,
          log |-> <<Error("Pass time in milli secs to sleep and CIDR", <<>>)>>]
  ELSE LET sleepTime == args[2] \o <<"m", "s">>
           parsed    == ParseDuration(sleepTime)
       IN IF parsed.err
            THEN [loop |-> FALSE, CIDR |-> args[3], duration |-> 0,
                  log |-> <<Error("Failed to parse time:", <<sleepTime>>)>>]
          ELSE [loop |-> TRUE, CIDR |-> args[3], duration |-> parsed.d, log |-> <<>>]

Startup ==
  /\ pc = "start"
  /\ LET a == Arguments(osArgs)
     IN /\ CIDR' = a.CIDR
        /\ duration' = a.duration
        /\ log' = log \o a.log
        /\ pc' = IF a.loop THEN "loop" ELSE "exited"
  /\ UNCHANGED <<osArgs, ifAddrs, devAddrs, nodeAddress, bindedAddress, ips, err,
                 invalidIP, tests, sleeps, prev>>

\* the report that ends the process on an error, as klog.Fatal would
ReportFatal(r) ==
  IF r.err # "nil"
    THEN [log |-> <<[sev |-> "FATAL", msg |-> "fetching Node Ips failed:",
                     args |-> <<r.err>>]>>,
          pc |-> "exited"]
  ELSE [log |-> <<Error("Node IPs:", <<r.ips>>)>>, pc |-> "sleep"]

\* the report that logs the list only when no conflict was seen
ReportListUnlessConflict(r) ==
  [log |-> IF r.err # "nil"
             THEN <<Error("fetching Node Ips failed:", <<r.err>>)>>
           ELSE IF r.invalidIP THEN <<>>
           ELSE <<Error("Node IPs:", <<r.ips>>)>>,
   pc  |-> "sleep"]

\* the report that goes back to the head of the loop on an error, as a
\* continue in the error branch would
ReportRetryAtOnce(r) ==
  IF r.err # "nil"
    THEN [log |-> <<Error("fetching Node Ips failed:", <<r.err>>)>>, pc |-> "loop"]
  ELSE [log |-> <<Error("Node IPs:", <<r.ips>>)>>, pc |-> "sleep"]

\* main, lines 31-36, on the outcome r of fetchNodeIPs: what is logged and
\* where control goes
Report(r) ==
  [log |-> IF r.err # "nil"
             THEN <<Error("fetching Node Ips failed:", <<r.err>>)>>
           ELSE <<Error("Node IPs:", <<r.ips>>)>>,
   pc  |-> "sleep"]

\* main, lines 30-35: one pass, reading all and dev from the host
Iteration(all, dev) ==
  /\ \E r \in fetchNodeIPs(all, dev, CIDR, prev.lastInvalidIP) :
       /\ ips' = r.ips
       /\ err' = r.err
       /\ nodeAddress' = r.nodeAddress
       /\ bindedAddress' = r.bindedAddress
       /\ invalidIP' = r.invalidIP
       /\ tests' = r.tests
       /\ log' = r.log \o Report(r).log
       /\ pc' = Report(r).pc
  /\ ifAddrs' = all
  /\ devAddrs' = dev
  /\ sleeps' = <<>>
  /\ UNCHANGED <<osArgs, CIDR, duration>>

\* the device is read only after the host's addresses were listed
Reads(A, D) ==
  {<<a, d>> \in AllResults(A) \X (DevResults(D) \cup {DevNotCalled}) :
     d.called <=> ~a.err}

Pass ==
  /\ pc = "loop"
  /\ \E io \in Reads(HostAddrs, HostAddrs) : Iteration(io[1], io[2])
  /\ UNCHANGED prev

\* a pass of the two-pass specification
HistPass ==
  /\ pc = "loop"
  /\ \E io \in Reads(HistAddrs, HistAddrs) : Iteration(io[1], io[2])
  /\ UNCHANGED prev

\* main, line 36; the pass's values go out of scope as the body ends
EndOfBody ==
  /\ pc = "sleep"
  /\ sleeps' = Append(sleeps, duration)
  /\ pc' = "loop"
  /\ log' = <<>>
  /\ ifAddrs' = NotCalled
  /\ devAddrs' = DevNotCalled
  /\ nodeAddress' = {}
  /\ bindedAddress' = {}
  /\ ips' = nil
  /\ err' = "nil"
  /\ invalidIP' = FALSE
  /\ tests' = 0
  /\ UNCHANGED <<osArgs, CIDR, duration>>

Sleep == EndOfBody /\ UNCHANGED prev

\* the sleep of the two-pass specification: prev.pass is the pass now ending
\* or stays an earlier one, prev.lastInvalidIP is the flag of the pass now
\* ending
HistSleep ==
  /\ EndOfBody
  /\ \E p \in {prev.pass, Summary} :
       prev' = [pass |-> p, lastInvalidIP |-> invalidIP]

Next == Startup \/ Pass \/ Sleep

Spec == Init /\ [][Next]_vars

HistNext == Startup \/ HistPass \/ HistSleep

HistSpec == HistInit /\ [][HistNext]_vars

\* a pass of the liveness specification
LivePass ==
  /\ pc = "loop"
  /\ \E io \in Reads(LiveAddrs, LiveAddrs) : Iteration(io[1], io[2])
  /\ UNCHANGED prev

LiveNext == Startup \/ LivePass \/ HistSleep

\* the scheduling of a sequential program whose calls return: a step that
\* can be taken is taken
LiveSpec == HistInit /\ [][LiveNext]_vars /\ WF_vars(LiveNext)

(***************************************************************************)
(* Vocabulary of the properties.                                           *)
(***************************************************************************)
IsIPAddr(a) == a.type \in {"IPAddr", "IPNet"}

\* the IPv4 address an address value stands for, <<>> when it is none
AsV4(ip) ==
  IF Len(ip) = 4 THEN ip
  ELSE IF Len(ip) = 16 /\ (\A i \in 1..10 : ip[i] = 0) /\ ip[11] = 255 /\ ip[12] = 255
    THEN <<ip[13], ip[14], ip[15], ip[16]>>
  ELSE <<>>

\* two address values stand for the same address
SameAddress(x, y) == IF AsV4(x) # <<>> THEN AsV4(x) = AsV4(y) ELSE AsV4(y) = <<>> /\ x = y

\* an address text is a loopback text, an IPv6 text
LoopbackText(s) == (s.fmt = "dotted" /\ s.f[1] = 127) \/ (s.fmt = "colon" /\ s.f = IPv6loopback)

IPv6Text(s) == s.fmt = "colon"

\* bit k (1 the most significant) of the dotted address f
Bit(f, k) == (f[((k - 1) \div 8) + 1] \div Pow2(7 - ((k - 1) % 8))) % 2

\* the CIDR text c is well formed; the address text s lies in its block
WellFormed(c) ==
  /\ c.slash
  /\ c.addr.fmt = "dotted"
  /\ c.bits \in 0..32
  /\ \A i \in 1..4 : c.addr.f[i] \in 0..255

Covered(c, s) ==
  /\ WellFormed(c)
  /\ s.fmt = "dotted"
  /\ \A k \in 1..c.bits : Bit(s.f, k) = Bit(c.addr.f, k)

\* the records of the log with the message msg
Logged(msg) == {i \in DOMAIN log : log[i].msg = msg}

PassDone == pc = "sleep"

PassSucceeded == PassDone /\ err = "nil"

\* the candidate texts of the pass, from what the host reported
Candidates == {String(ips[i]) : i \in DOMAIN ips}

(***************************************************************************)
(* C1: in every pass on which fetchNodeIPs succeeds, every address it      *)
(* returns is one the host listed among all local addresses, and none is   *)
(* an address (passing the filter) listed for kube-ipvs0, also when the    *)
(* address is bound to kube-ipvs0 and to another interface.                *)
(***************************************************************************)
C1_NodeIPsLocalAndNotBound ==
  PassSucceeded =>
    \A i \in DOMAIN ips :
      /\ \E j \in DOMAIN ifAddrs.addrs :
           IsIPAddr(ifAddrs.addrs[j]) /\ SameAddress(ifAddrs.addrs[j].IP, ips[i])
      /\ \A j \in DOMAIN devAddrs.addrs :
           IsIPAddr(devAddrs.addrs[j]) => ~SameAddress(devAddrs.addrs[j].IP, ips[i])
      /\ String(ips[i]) \in nodeAddress \ bindedAddress

\* a pass that returned an address and left out one bound to kube-ipvs0 too
C1_Witness ==
  /\ PassSucceeded
  /\ ips # <<>>
  /\ \E j \in DOMAIN ifAddrs.addrs, k \in DOMAIN devAddrs.addrs :
       /\ ifAddrs.addrs[j] = devAddrs.addrs[k]
       /\ isValidForSet(ifAddrs.addrs[j].IP)
       /\ IsIPAddr(ifAddrs.addrs[j])

(***************************************************************************)
(* C2: the sets AddressSet builds with isValidForSet, and the node IPs of  *)
(* a pass, hold no loopback address and no IPv6 address; every IPv4        *)
(* address of the input that is not a loopback address (link-local and     *)
(* IPv4-mapped ones too) is in the set; the returned list has no address   *)
(* twice.                                                                  *)
(***************************************************************************)
C2_FilteredSets ==
  PassDone =>
    /\ \A s \in nodeAddress \cup bindedAddress \cup Candidates :
         ~LoopbackText(s) /\ ~IPv6Text(s)
    /\ ~ifAddrs.err =>
         \A j \in DOMAIN ifAddrs.addrs :
           LET a == ifAddrs.addrs[j]
           IN (IsIPAddr(a) /\ AsV4(a.IP) # <<>> /\ AsV4(a.IP)[1] # 127)
                => [fmt |-> "dotted", f |-> AsV4(a.IP)] \in nodeAddress
    /\ PassSucceeded =>
         \A j \in DOMAIN devAddrs.addrs :
           LET a == devAddrs.addrs[j]
           IN (IsIPAddr(a) /\ AsV4(a.IP) # <<>> /\ AsV4(a.IP)[1] # 127)
                => [fmt |-> "dotted", f |-> AsV4(a.IP)] \in bindedAddress
    /\ \A i, j \in DOMAIN ips : SameAddress(ips[i], ips[j]) => i = j

\* a pass whose host listed an address in both IPv4 forms and a loopback
\* address, and that kept the one address once
C2_Witness ==
  /\ PassSucceeded
  /\ Len(ips) = 1
  /\ \E j, k \in DOMAIN ifAddrs.addrs :
       /\ Len(ifAddrs.addrs[j].IP) = 16
       /\ AsV4(ifAddrs.addrs[j].IP) # <<>>
       /\ IsLoopback(ifAddrs.addrs[k].IP)

(***************************************************************************)
(* C3: with a well-formed CIDR, a pass reports a conflict (the flag is     *)
(* set and the conflict messages are logged) exactly when some candidate   *)
(* address lies in the CIDR's block; no candidates, no conflict; an        *)
(* address of the block that is bound to kube-ipvs0 is no candidate.       *)
(***************************************************************************)
C3_ConflictIffCovered ==
  (PassSucceeded /\ WellFormed(CIDR)) =>
    /\ invalidIP <=> \E s \in nodeAddress \ bindedAddress : Covered(CIDR, s)
    /\ invalidIP <=> Logged("Node IP contains cluster ip:") # {}
    /\ invalidIP <=> Logged("NodeAddresses: %+v, BindAddresses:%+v, Diff: %+v") # {}
    /\ tests = Len(ips)

\* a conflict in a pass where another address of the block was bound to
\* kube-ipvs0
C3_Witness ==
  /\ PassSucceeded
  /\ invalidIP
  /\ \E s \in nodeAddress \cap bindedAddress : Covered(CIDR, s)

(***************************************************************************)
(* C4: a pass in which listing the local addresses fails, or kube-ipvs0 is *)
(* absent or unreadable, returns an error and no list, tests no address    *)
(* against the CIDR, logs no conflict message and no address list, logs    *)
(* the error, and is followed by the sleep that leads to the next pass.    *)
(***************************************************************************)
SourceFailed ==
  ifAddrs.called /\ (ifAddrs.err \/ (devAddrs.called /\ (~devAddrs.found \/ devAddrs.err)))

C4_FailedPass ==
  (PassDone /\ SourceFailed) =>
    /\ err # "nil"
    /\ ips = nil
    /\ tests = 0
    /\ ~invalidIP
    /\ Len(log) = 1
    /\ log[1] = Error("fetching Node Ips failed:", <<err>>)
    /\ Logged("Node IPs:") = {}
    /\ ENABLED EndOfBody

\* a pass in which kube-ipvs0 was absent while the host listed an address
\* of the CIDR's block
C4_Witness ==
  /\ PassDone
  /\ devAddrs.called
  /\ ~devAddrs.found
  /\ \E s \in nodeAddress : Covered(CIDR, s)

(***************************************************************************)
(* C5: in every pass with a malformed CIDR in which the collection         *)
(* succeeds, whatever the candidates (none included), no conflict is       *)
(* reported and no address is tested, the CIDR parse error is logged, and  *)
(* the full candidate list is logged.                                      *)
(***************************************************************************)
C5_MalformedCIDRPass ==
  (PassSucceeded /\ ~WellFormed(CIDR)) =>
    /\ ~invalidIP
    /\ tests = 0
    /\ Logged("Node IP contains cluster ip:") = {}
    /\ Logged("Could not parse cidr, error") # {}
    /\ \E i \in Logged("Node IPs:") : log[i].args = <<ips>>

(***************************************************************************)
(* C6: once the loop is entered the process never leaves it, and after     *)
(* every pass, failed or not, the sleep ends and another pass is made; a   *)
(* pass whose address source failed has logged the error.                  *)
(***************************************************************************)
C6_LoopNeverEnds ==
  /\ [](pc = "sleep" => <>(pc = "loop"))
  /\ [](pc = "loop" => <>(pc = "sleep"))
  /\ [][(pc \in {"loop", "sleep"} => pc' \in {"loop", "sleep"})]_vars
  /\ []((PassDone /\ SourceFailed) => Logged("fetching Node Ips failed:") # {})

\* a pass in which kube-ipvs0 was absent, made after an earlier failed pass
C6_Witness ==
  /\ PassDone
  /\ devAddrs.called /\ ~devAddrs.found
  /\ err # "nil"
  /\ prev.pass.called
  /\ prev.pass.err # "nil"

(***************************************************************************)
(* C7: with fewer than two arguments, or an interval that is not a         *)
(* duration once "ms" is appended, the process logs one error and exits:   *)
(* it makes no pass and never sleeps; the loop is entered only with both   *)
(* arguments and an interval that parses.                                  *)
(***************************************************************************)
\* "", "x", "." and "5m": followed by "ms", none is a duration
UnparseableIntervals == {<<>>, <<"x">>, <<".">>, <<"5", "m">>}

BadArguments == Len(osArgs) < 3 \/ osArgs[2] \in UnparseableIntervals

C7_StartupErrorsExit ==
  /\ BadArguments =>
       /\ pc \in {"start", "exited"}
       /\ ~ifAddrs.called
       /\ sleeps = <<>>
       /\ pc = "exited" => (Len(log) = 1 /\ log[1].sev = "ERROR")
  /\ pc \in {"loop", "sleep"} => ~BadArguments
  /\ (pc = "exited" /\ Len(osArgs) >= 3) => log[1].msg = "Failed to parse time:"

\* the exit on an interval that does not parse, the CIDR given
C7_Witness ==
  /\ pc = "exited"
  /\ Len(osArgs) = 3
  /\ osArgs[2] = <<"5", "m">>

(***************************************************************************)
(* C8: in every pass in which the collection succeeds the full candidate   *)
(* list is logged exactly once, conflict or not; after a conflict the pass *)
(* has also logged a distinct message of higher severity that names the    *)
(* offending address, with the full context (all local addresses, the      *)
(* addresses of kube-ipvs0, the candidates); without a conflict it logs    *)
(* no such message.                                                        *)
(***************************************************************************)
SevRank(sev) ==
  CASE sev = "INFO" -> 0 [] sev = "WARNING" -> 1 [] sev = "ERROR" -> 2 [] sev = "FATAL" -> 3

ConflictMsgs ==
  Logged("Node IP contains cluster ip:")
    \cup Logged("NodeAddresses: %+v, BindAddresses:%+v, Diff: %+v")

\* the list is logged once; a conflict is named and given its context
ListAndConflictLogged ==
  /\ Cardinality(Logged("Node IPs:")) = 1
  /\ \A i \in Logged("Node IPs:") : log[i].args = <<ips>>
  /\ invalidIP =>
       /\ \E i \in Logged("Node IP contains cluster ip:") :
            /\ log[i].args[1] \in Range(ips)
            /\ Covered(CIDR, String(log[i].args[1]))
       /\ \E i \in Logged("NodeAddresses: %+v, BindAddresses:%+v, Diff: %+v") :
            log[i].args = <<nodeAddress, bindedAddress, ips>>
  /\ ~invalidIP => ConflictMsgs = {}

\* the claim as stated: the conflict messages outrank the list
C8_HigherSeverity ==
  PassSucceeded =>
    /\ ListAndConflictLogged
    /\ \A i \in ConflictMsgs, j \in Logged("Node IPs:") :
         SevRank(log[i].sev) > SevRank(log[j].sev)

\* C8, amended: the conflict messages are distinct from the list message
\* and have its severity, ERROR
C8_SameSeverity ==
  PassSucceeded =>
    /\ ListAndConflictLogged
    /\ \A i \in ConflictMsgs, j \in Logged("Node IPs:") :
         /\ log[i].msg # log[j].msg
         /\ log[i].sev = "ERROR"
         /\ log[j].sev = "ERROR"

\* a pass with a conflict, and a candidate outside the block as well
C8_Witness ==
  /\ PassSucceeded
  /\ invalidIP
  /\ \E s \in Candidates : ~Covered(CIDR, s)

(***************************************************************************)
(* C9: with a well-formed CIDR, if a pass has the candidates of an earlier *)
(* pass and one address more, then it reports a conflict when the added    *)
(* address lies in the CIDR's block, and it reports a conflict when the    *)
(* earlier pass did: adding an address never clears the conflict.          *)
(***************************************************************************)
EarlierCandidates == {String(x) : x \in prev.pass.ipset}

C9_Monotonic ==
  (PassSucceeded /\ prev.pass.called /\ prev.pass.err = "nil" /\ WellFormed(CIDR)) =>
    \A a \in Candidates :
      Candidates = EarlierCandidates \cup {a} =>
        /\ Covered(CIDR, a) => invalidIP
        /\ prev.pass.invalidIP => invalidIP

\* a conflict kept when a second address of the block is added
C9_Witness ==
  /\ PassSucceeded
  /\ invalidIP
  /\ prev.pass.called
  /\ prev.pass.invalidIP
  /\ \E a \in Candidates \ EarlierCandidates :
       Covered(CIDR, a) /\ Candidates = EarlierCandidates \cup {a}

(***************************************************************************)
(* C10: a pass that reads what an earlier pass read gives the same node    *)
(* IPs, the same conflict result and the same error, whatever the passes   *)
(* in between observed; and no step after startup changes the CIDR, the    *)
(* interval or the arguments.                                              *)
(***************************************************************************)
SameReads ==
  /\ prev.pass.called
  /\ prev.pass.all = Summary.all
  /\ prev.pass.dev = Summary.dev

C10_IndependentPasses ==
  /\ []((PassDone /\ SameReads) =>
          /\ Summary.ipset = prev.pass.ipset
          /\ invalidIP = prev.pass.invalidIP
          /\ err = prev.pass.err)
  /\ [][pc # "start" => (CIDR' = CIDR /\ duration' = duration /\ osArgs' = osArgs)]_vars

\* a pass without conflict that reads what an earlier pass read, made right
\* after a pass with a conflict
C10_Witness ==
  /\ PassSucceeded
  /\ SameReads
  /\ ~invalidIP
  /\ prev.lastInvalidIP
  /\ Candidates # {}

(***************************************************************************)
(* C11: every pass, failed or not, is followed by exactly one sleep of the *)
(* configured interval before the next pass starts: the only step after a  *)
(* pass is that sleep, a pass starts only when the pass before it has      *)
(* slept (or is the first, right after startup), and passes do not         *)
(* overlap.                                                                *)
(***************************************************************************)
C11_OneSleepBetweenPasses ==
  /\ [](ifAddrs.called => pc = "sleep")
  /\ [](pc = "sleep" => sleeps = <<>>)
  /\ [](pc = "loop" => sleeps \in {<<>>, <<duration>>})
  /\ [][(pc = "sleep" => (pc' = "loop" /\ sleeps' = <<duration>>))]_vars
  /\ [][((pc' = "loop" /\ sleeps' = <<>>) => pc = "start")]_vars
  /\ [][(pc = "loop" => (pc' = "sleep" /\ ifAddrs'.called))]_vars

\* the loop head after the one sleep that followed a failed pass
C11_Witness ==
  /\ pc = "loop"
  /\ sleeps = <<duration>>
  /\ duration > 0
  /\ prev.pass.called
  /\ prev.pass.err # "nil"
  /\ prev.pass.invalidIP = prev.lastInvalidIP

(***************************************************************************)
(* C12: the list fetchNodeIPs returns holds every address of the set       *)
(* difference exactly once, in some order, however many candidates lie in  *)
(* the CIDR's block and whether or not the CIDR parses.                    *)
(***************************************************************************)
\* the texts of the listed addresses that pass the filter
Kept(addrs) ==
  {[fmt |-> "dotted", f |-> AsV4(addrs[j].IP)] :
     j \in {k \in DOMAIN addrs :
              /\ IsIPAddr(addrs[k])
              /\ AsV4(addrs[k].IP) # <<>>
              /\ AsV4(addrs[k].IP)[1] # 127}}

C12_WholeDifferenceReturned ==
  PassSucceeded =>
    /\ Candidates = Kept(ifAddrs.addrs) \ Kept(devAddrs.addrs)
    /\ Candidates = nodeAddress \ bindedAddress
    /\ Len(ips) = Cardinality(Candidates)

\* a pass with two candidates in the block, both returned
C12_Witness ==
  /\ PassSucceeded
  /\ invalidIP
  /\ Len(ips) >= 2
  /\ \A s \in Candidates : Covered(CIDR, s)

(***************************************************************************)
(* C13: the CIDR is parsed once in a pass, however many candidates there   *)
(* are: a pass with a malformed CIDR logs the parse failure exactly once,  *)
(* with no, one or many candidates.                                        *)
(***************************************************************************)
C13_ParseLoggedOnce ==
  (PassSucceeded /\ ~WellFormed(CIDR)) =>
    Cardinality(Logged("Could not parse cidr, error")) = 1

(***************************************************************************)
(* C14: a pass logs at most one 'Node IP contains cluster ip' message and  *)
(* at most one context message; the address named is the first candidate  *)
(* of the block in the order the set was listed, so with two candidates    *)
(* in the block either can be the one named for the same inputs; the       *)
(* context message comes after the whole list was built and carries it.    *)
(***************************************************************************)
\* the host lists 10.96.0.5 and 10.96.0.10, kube-ipvs0 has no address
TwoInBlock ==
  [called |-> TRUE, err |-> FALSE,
   addrs |-> <<IPNet(IP4(10, 96, 0, 5)), IPAddr(IP4(10, 96, 0, 10))>>]

NoneBound == [called |-> TRUE, found |-> TRUE, err |-> FALSE, addrs |-> <<>>]

\* a pass on these inputs that names the address ip
PassNaming(ip) ==
  /\ Iteration(TwoInBlock, NoneBound)
  /\ UNCHANGED prev
  /\ log'[1] = Error("Node IP contains cluster ip:", <<ip>>)

\* the positions of ips that lie in the block
InBlock == {i \in DOMAIN ips : Covered(CIDR, String(ips[i]))}

C14_FirstMetIsNamed ==
  /\ PassDone =>
       /\ Cardinality(Logged("Node IP contains cluster ip:")) <= 1
       /\ Cardinality(Logged("NodeAddresses: %+v, BindAddresses:%+v, Diff: %+v")) <= 1
       /\ \A i \in Logged("Node IP contains cluster ip:") :
            \E k \in InBlock :
              /\ log[i].args = <<ips[k]>>
              /\ \A j \in InBlock : k <= j
       /\ \A i \in Logged("NodeAddresses: %+v, BindAddresses:%+v, Diff: %+v") :
            /\ i = Len(log) - 1
            /\ log[i].args[3] = ips
            /\ \A j \in Logged("Node IP contains cluster ip:") : j < i
  /\ (pc = "loop" /\ WellFormed(CIDR)) =>
       /\ ENABLED PassNaming(IPv4(10, 96, 0, 5))
       /\ ENABLED PassNaming(IPv4(10, 96, 0, 10))

\* a pass with two candidates in the block that named the one the host
\* listed second
C14_Witness ==
  /\ PassSucceeded
  /\ Cardinality(InBlock) = 2
  /\ ifAddrs = TwoInBlock
  /\ Cardinality(Logged("Node IP contains cluster ip:")) = 1
  /\ log[1].args = <<IPv4(10, 96, 0, 10)>>

====
